---------------------------- MODULE Spec2Model ----------------------------
(***************************************************************************)
(* A model of src/api/managed-records.js: `retrieve(options)` turns one    *)
(* {page, colors} request into three GET queries (the page itself and the  *)
(* two adjacent pages), joins their settlements with Promise.all and       *)
(* reshapes the page into {previousPage, nextPage, ids, open,              *)
(* closedPrimaryCount}.                                                    *)
(*                                                                         *)
(* JavaScript runs every callback to completion, so each action below is   *)
(* one synchronous stretch of the code: the body of retrieve up to the     *)
(* creation of the Promise.all promise, the settlement of one fetch with   *)
(* the callbacks chained on it, the Promise.all callback, and the          *)
(* callback that transforms the joined response.                           *)
(***************************************************************************)
EXTENDS Integers, Sequences, FiniteSets, TLC

(***************************************************************************)
(* JavaScript values.  Every value is a record with a tag t, so that any   *)
(* two values can be compared.  A number is kept in tenths (15 is 1.5) so  *)
(* that parseInt is a real conversion.  An array or a plain object carries *)
(* the two properties requestPages may attach to it.                       *)
(***************************************************************************)
Undefined == [t |-> "undefined"]
Null == [t |-> "null"]
Tenths(k) == [t |-> "number", tenths |-> k]
Num(n) == Tenths(10 * n)
Str(s) == [t |-> "string", chars |-> s]
List(items) == [t |-> "array", items |-> items]
JsonArray(items) ==
    [t |-> "array", items |-> items, previousPage |-> Undefined, nextPage |-> Undefined]
JsonObject == [t |-> "object", previousPage |-> Undefined, nextPage |-> Undefined]
Unparseable == [t |-> "unparseable"]
Ref(o) == [t |-> "ref", obj |-> o]

\* ToBoolean: undefined, null, 0 and "" are falsy; arrays and objects are truthy.
truthy(v) ==
    CASE v.t = "undefined" -> FALSE
      [] v.t = "null" -> FALSE
      [] v.t = "number" -> v.tenths # 0
      [] v.t = "string" -> Len(v.chars) > 0
      [] OTHER -> TRUE

\* `v.length > 0`: only arrays and strings have a length; undefined > 0 is false.
lengthPositive(v) ==
    CASE v.t = "array" -> Len(v.items) > 0
      [] v.t = "string" -> Len(v.chars) > 0
      [] OTHER -> FALSE

\* parseInt of a number: its integer part, truncated towards zero.
parseInt(v) ==
    IF v.tenths >= 0 THEN v.tenths \div 10 ELSE -((-v.tenths) \div 10)

minus(v, n) == Tenths(v.tenths - 10 * n)
plus(v, n) == Tenths(v.tenths + 10 * n)

(***************************************************************************)
(* Constants of the program.                                               *)
(***************************************************************************)
defaultPage == 1
defaultLimit == 10
defaultRequestOptions ==
    [page |-> defaultPage, colors |-> List(<<>>), limit |-> defaultLimit]
primaryColors == {"red", "blue", "yellow"}

(***************************************************************************)
(* Bounds and inputs.                                                      *)
(***************************************************************************)
MaxPage == 2        \* largest integer page a caller supplies
MaxCalls == 2       \* retrieve calls made, one after the other, with one options object
MaxLen == 2         \* longest record sequence given to the transform stage alone

Calls == {1, 2}
Objs == {1, 2}
Slots == {"current", "previous", "next"}

PageInputs == {Undefined, Tenths(15)} \cup {Num(n) : n \in -1..MaxPage}
ColorInputs == {Undefined, List(<<>>), List(<<"red">>)}
\* A caller's options object; retrieve() with no argument gets a fresh {},
\* which is the object with both fields undefined.
\* One of them carries a limit of its own, which the program never reads.
OptionInputs ==
    [page : PageInputs, colors : ColorInputs, limit : {Undefined}]
        \cup {[page |-> Num(1), colors |-> List(<<"red">>), limit |-> Num(5)]}
EmptyOptions == [page |-> Undefined, colors |-> Undefined, limit |-> Undefined]
OverlapOptionInputs ==
    {EmptyOptions, [page |-> Num(2), colors |-> List(<<"red">>), limit |-> Undefined]}

\* The records the transform stage is tried on.
RecordInputs ==
    [id : {1, 2}, color : {"red", "blue", "yellow", "Red", "green"},
     disposition : {"open", "closed", "pending"}]

\* The pages a server answers with in the full system.
Rec(i, c, d) == [id |-> i, color |-> c, disposition |-> d]
PageBodies == {<<>>, <<Rec(2, "blue", "closed"), Rec(1, "red", "open")>>}

\* What one GET may end in: a response with a status and a body, or a
\* transport failure (the fetch promise rejects).
Ok(body) == [kind |-> "response", status |-> 200, body |-> body]
Status(s) == [kind |-> "response", status |-> s, body |-> Undefined]
Failure == [kind |-> "failure", status |-> 0, body |-> Undefined]
StatusInputs == {304, 400, 500}
ArrayOutcomes == {Ok(JsonArray(b)) : b \in PageBodies}
NonArrayOutcomes == {Ok(JsonObject), Ok(Str("x"))}
FetchOutcomes ==
    ArrayOutcomes \cup NonArrayOutcomes \cup {Ok(Unparseable), Failure}
        \cup {Status(s) : s \in StatusInputs}
\* The outcomes drawn when two calls overlap.
OverlapOutcomes == ArrayOutcomes \cup {Status(500)}

\* console.log('Error: ', error.message): the message, with the status it carries.
NoLog == [msg |-> "", status |-> 0]
Message(m) == [msg |-> m, status |-> 0]
ReceivedMessage(s) == [msg |-> "Received <status> response code during fetch", status |-> s]

VARIABLES
    pc,               \* per call: "absent", "idle", "pending", "joined", "done"
    arg,              \* per call: the options object it is given
    heap,             \* the callers' options objects
    given,            \* per call: the value of its options object when retrieve was called
    firstQuery,       \* per call: the GETs of the first call made with its options object
    calls,            \* per call: how many times retrieve has been called with its object
    currentPage,      \* per call: requestPages' local currentPage
    query,            \* per call and slot: the GET issued
    fstate,           \* per call and slot: "none", "inflight", "settled"
    outcome,          \* per call and slot: what the GET ended in
    value,            \* per call and slot: what the slot's promise resolved to
    flog,             \* per call and slot: what request's catch logged
    response,         \* per call: what requestPages resolved to
    result,           \* per call: what retrieve resolved to
    clog,             \* per call: what the catch of requestPages or retrieve logged
    RequestHandler,   \* the module-level object, its field options
    ResponseHandler   \* the module-level object, its fields response and options

vars ==
    <<pc, arg, heap, given, firstQuery, calls, currentPage, query, fstate, outcome, value, flog,
      response, result, clog, RequestHandler, ResponseHandler>>

Pending == [t |-> "pending"]
NoQuery == [t |-> "none"]
path == "http://localhost:3000/records"

(***************************************************************************)
(* Pre-API transforms: RequestHandler.                                     *)
(***************************************************************************)
calculateOffset_nolimit(page, limit) == page * limit
calculateOffset(page, limit) == (page * limit) - limit

resolveLimit == defaultRequestOptions.limit

resolveOffset(this, h) ==
    LET o == h[this.options.obj]
        page == IF o.page.t = "number" THEN parseInt(o.page) ELSE defaultRequestOptions.page
    IN  calculateOffset(page, defaultRequestOptions.limit)

resolveColor(this, h) ==
    LET o == h[this.options.obj]
    IN  IF truthy(o.colors) THEN o.colors ELSE defaultRequestOptions.colors

\* The handler after `this.options = options`, and the payload.
resolvePayload(self, options, h) ==
    LET this == [self EXCEPT !.options = options]
    IN  [self |-> this,
         payload |-> [limit |-> resolveLimit,
                      offset |-> resolveOffset(this, h),
                      color |-> resolveColor(this, h)]]

generateApiGetRequest(p, payload) == [path |-> p, search |-> payload]

formApiRequest(self, options, h) ==
    LET r == resolvePayload(self, options, h)
    IN  [self |-> r.self, uri |-> generateApiGetRequest(path, r.payload)]

\* The synchronous part of request: the URI that fetch is called with.
request(self, options, h) == formApiRequest(self, options, h)

\* peek writes the page into the options object it was handed, then requests.
peek(self, options, h, page) ==
    LET h1 == [h EXCEPT ![options.obj].page = page]
        r == request(self, options, h1)
    IN  [self |-> r.self, heap |-> h1, uri |-> r.uri]

\* The synchronous part of requestPages: the three GETs, in the order issued.
requestPages(self, options, h) ==
    LET o == h[options.obj]
        cp == IF truthy(o.page) THEN o.page ELSE Num(defaultRequestOptions.page)
        cur == request(self, options, h)
        prev == peek(cur.self, options, h, minus(cp, 1))
        next == peek(prev.self, options, prev.heap, plus(cp, 1))
    IN  [self |-> next.self, heap |-> next.heap, currentPage |-> cp,
         uri |-> [current |-> cur.uri, previous |-> prev.uri, next |-> next.uri]]

\* The callbacks request chains on fetch: what the promise resolves to and
\* what the catch logs.
requestThen(out) ==
    IF out.kind = "failure"
    THEN [value |-> Undefined, log |-> Message("transport failure")]
    ELSE IF out.status >= 200 /\ out.status <= 299
    THEN IF out.body = Unparseable
         THEN [value |-> Undefined, log |-> Message("SyntaxError")]
         ELSE [value |-> out.body, log |-> NoLog]
    ELSE IF out.status > 400 /\ out.status < 600
    THEN [value |-> Undefined, log |-> ReceivedMessage(out.status)]
    ELSE [value |-> Undefined, log |-> NoLog]

\* The callback requestPages chains on each of its three requests.
slotThen(slot, cp, resp) ==
    CASE slot = "current" -> resp
      [] slot = "previous" ->
            IF truthy(resp) /\ lengthPositive(resp) THEN minus(cp, 1) ELSE Null
      [] slot = "next" ->
            IF truthy(resp) /\ lengthPositive(resp) THEN plus(cp, 1) ELSE Null

\* Promise.all([current, previous, next]) is fulfilled once all three are.
PromiseRace(c) == \E k \in Slots : fstate[c][k] = "settled"
PromiseAll(c) == \A k \in Slots : fstate[c][k] = "settled"

\* The callback on Promise.all: attach the hints to the current page's value.
\* Setting a property on undefined, on null or (in module code, which is
\* strict) on a primitive throws a TypeError, which the catch logs.
joinThen(responses) ==
    LET resp == responses["current"]
    IN  IF resp.t \in {"array", "object"}
        THEN [value |-> [resp EXCEPT !.previousPage = responses["previous"],
                                     !.nextPage = responses["next"]],
              log |-> NoLog]
        ELSE [value |-> Undefined, log |-> Message("TypeError")]


(***************************************************************************)
(* Post-API transform: ResponseHandler.                                    *)
(***************************************************************************)
amend(record) ==
    [id |-> record.id, color |-> record.color, disposition |-> record.disposition,
     isPrimary |-> record.color \in primaryColors]

\* map writes isPrimary into each record of this.response, in place.
deriveAndAmendIsPrimary(this) ==
    [this EXCEPT !.response.items = [i \in 1..Len(@) |-> amend(@[i])]]

resolveIds(this) ==
    [i \in 1..Len(this.response.items) |-> this.response.items[i].id]

isOpen(record) == record.disposition = "open"
isNotClosed(record) == record.disposition # "closed"
isClosedPrimary(record) == record.disposition = "closed" /\ record.isPrimary

resolveOpen_notClosed(this) == SelectSeq(this.response.items, isNotClosed)
resolveOpen(this) == SelectSeq(this.response.items, isOpen)

resolveClosedPrimaryCount(this) == Len(SelectSeq(this.response.items, isClosedPrimary))

\* The handler after the call, whether it threw (map, of a value that is no
\* array, is not a function), and the object returned.
resolveResponseFrom(self, r, options) ==
    LET this0 == [self EXCEPT !.response = r, !.options = options]
    IN  IF r.t # "array"
        THEN [self |-> this0, threw |-> TRUE, value |-> Undefined]
        ELSE LET this == deriveAndAmendIsPrimary(this0)
             IN  [self |-> this, threw |-> FALSE,
                  value |-> [previousPage |-> this.response.previousPage,
                             nextPage |-> this.response.nextPage,
                             ids |-> resolveIds(this),
                             open |-> resolveOpen(this),
                             closedPrimaryCount |-> resolveClosedPrimaryCount(this)]]

\* A handler that keeps the response it already holds.
resolveResponse_stale(self, resp, options) ==
    resolveResponseFrom(self,
        IF truthy(self.response) THEN self.response
        ELSE IF resp = Undefined THEN JsonArray(<<>>) ELSE resp,
        options)

\* resolveResponse(response = [], options = {}).
resolveResponse(self, resp, options) ==
    resolveResponseFrom(self, IF resp = Undefined THEN JsonArray(<<>>) ELSE resp, options)

\* transformResponse(response = [], options = {}) calls resolveResponse twice
\* with the same response object and returns what the second call returns.
transformResponse(self, resp, options) ==
    LET r == IF resp = Undefined THEN JsonArray(<<>>) ELSE resp
        first == resolveResponse(self, r, options)
    IN  IF first.threw THEN first
        ELSE resolveResponse(first.self, first.self.response, options)

(***************************************************************************)
(* Actions.                                                                *)
(***************************************************************************)
NoSlots(v) == [k \in Slots |-> v]

\* retrieve(options), up to the creation of the Promise.all promise: the
\* three GETs are issued, through the shared RequestHandler.
Start(c) ==
    LET r == requestPages(RequestHandler, Ref(arg[c]), heap)
    IN  /\ given' = [given EXCEPT ![c] = heap[arg[c]]]
        /\ firstQuery' = [firstQuery EXCEPT ![c] = IF calls[c] = 0 THEN r.uri ELSE @]
        /\ calls' = [calls EXCEPT ![c] = @ + 1]
        /\ heap' = r.heap
        /\ RequestHandler' = r.self
        /\ currentPage' = [currentPage EXCEPT ![c] = r.currentPage]
        /\ query' = [query EXCEPT ![c] = r.uri]
        /\ fstate' = [fstate EXCEPT ![c] = NoSlots("inflight")]
        /\ outcome' = [outcome EXCEPT ![c] = NoSlots(Pending)]
        /\ value' = [value EXCEPT ![c] = NoSlots(Pending)]
        /\ flog' = [flog EXCEPT ![c] = NoSlots(NoLog)]
        /\ response' = [response EXCEPT ![c] = Pending]
        /\ result' = [result EXCEPT ![c] = Pending]
        /\ clog' = [clog EXCEPT ![c] = NoLog]
        /\ pc' = [pc EXCEPT ![c] = "pending"]
        /\ UNCHANGED <<arg, ResponseHandler>>

Retrieve(c) ==
    /\ pc[c] = "idle"
    /\ Start(c)

\* The caller calls retrieve once more with the options object of a call that
\* has resolved.
RetrieveAgain(c) ==
    /\ pc[c] = "done"
    /\ calls[c] < MaxCalls
    /\ Start(c)

\* One GET ends in `out`; the callbacks of request and of requestPages run.
Settle(c, k, out) ==
    /\ pc[c] = "pending"
    /\ fstate[c][k] = "inflight"
    /\ LET r == requestThen(out)
       IN  /\ value' = [value EXCEPT ![c][k] = slotThen(k, currentPage[c], r.value)]
           /\ flog' = [flog EXCEPT ![c][k] = r.log]
    /\ outcome' = [outcome EXCEPT ![c][k] = out]
    /\ fstate' = [fstate EXCEPT ![c][k] = "settled"]
    /\ UNCHANGED <<pc, arg, heap, given, firstQuery, calls, currentPage, query, response,
                   result, clog, RequestHandler, ResponseHandler>>

\* The callback on Promise.all, or the catch after it.
Join(c) ==
    /\ pc[c] = "pending"
    /\ PromiseAll(c)
    /\ LET j == joinThen(value[c])
       IN  /\ response' = [response EXCEPT ![c] = j.value]
           /\ clog' = [clog EXCEPT ![c] = j.log]
    /\ pc' = [pc EXCEPT ![c] = "joined"]
    /\ UNCHANGED <<arg, heap, given, firstQuery, calls, currentPage, query, fstate, outcome,
                   value, flog, result, RequestHandler, ResponseHandler>>

\* retrieve's callback on requestPages, or the catch after it: the transform,
\* through the shared ResponseHandler.
Transform(c) ==
    /\ pc[c] = "joined"
    /\ LET tr == transformResponse(ResponseHandler, response[c], Ref(arg[c]))
       IN  /\ ResponseHandler' = tr.self
           /\ result' = [result EXCEPT ![c] = tr.value]
           /\ clog' = [clog EXCEPT ![c] = IF tr.threw THEN Message("TypeError") ELSE @]
           /\ response' = [response EXCEPT ![c] =
                              IF @ = Undefined THEN @ ELSE tr.self.response]
    /\ pc' = [pc EXCEPT ![c] = "done"]
    /\ UNCHANGED <<arg, heap, given, firstQuery, calls, currentPage, query, fstate, outcome,
                   value, flog, RequestHandler>>

(***************************************************************************)
(* Specifications.                                                         *)
(***************************************************************************)
Unstarted ==
    /\ given = [c \in Calls |-> EmptyOptions]
    /\ firstQuery = [c \in Calls |-> NoSlots(NoQuery)]
    /\ calls = [c \in Calls |-> 0]
    /\ currentPage = [c \in Calls |-> Undefined]
    /\ query = [c \in Calls |-> NoSlots(NoQuery)]
    /\ fstate = [c \in Calls |-> NoSlots("none")]
    /\ outcome = [c \in Calls |-> NoSlots(Pending)]
    /\ value = [c \in Calls |-> NoSlots(Pending)]
    /\ flog = [c \in Calls |-> NoSlots(NoLog)]
    /\ response = [c \in Calls |-> Pending]
    /\ result = [c \in Calls |-> Pending]
    /\ clog = [c \in Calls |-> NoLog]
    /\ RequestHandler = [options |-> Undefined]
    /\ ResponseHandler = [response |-> Undefined, options |-> Undefined]

\* One caller, one options object, any outcome of each GET.
Init ==
    /\ pc = [c \in Calls |-> IF c = 1 THEN "idle" ELSE "absent"]
    /\ arg = [c \in Calls |-> c]
    /\ heap \in {h \in [Objs -> OptionInputs] : h[2] = EmptyOptions}
    /\ Unstarted

Next ==
    \/ \E c \in Calls : Retrieve(c)
    \/ \E c \in Calls : RetrieveAgain(c)
    \/ \E c \in Calls, k \in Slots, out \in FetchOutcomes : Settle(c, k, out)
    \/ \E c \in Calls : Join(c)
    \/ \E c \in Calls : Transform(c)

Spec == Init /\ [][Next]_vars

\* Two calls that overlap, given the same options object or two.
InitOverlap ==
    /\ pc = [c \in Calls |-> "idle"]
    /\ arg \in {a \in [Calls -> Objs] : a[1] = 1}
    /\ heap \in [Objs -> OverlapOptionInputs]
    /\ Unstarted

NextOverlap ==
    \/ \E c \in Calls : Retrieve(c)
    \/ \E c \in Calls, k \in Slots, out \in OverlapOutcomes : Settle(c, k, out)
    \/ \E c \in Calls : Join(c)
    \/ \E c \in Calls : Transform(c)

SpecOverlap == InitOverlap /\ [][NextOverlap]_vars


\* The transform stage alone: requestPages has resolved to a page of any
\* records (page 2, a previous page with a record, an empty next page).
BoundedSeq(S, n) == UNION {[1..m -> S] : m \in 0..n}

InitTransform ==
    \E items \in BoundedSeq(RecordInputs, MaxLen) :
        LET h0 == [o \in Objs |-> IF o = 1 THEN [page |-> Num(2), colors |-> Undefined, limit |-> Undefined]
                                  ELSE EmptyOptions]
            r == requestPages([options |-> Undefined], Ref(1), h0)
            outs == [k \in Slots |->
                        CASE k = "current" -> Ok(JsonArray(items))
                          [] k = "previous" -> Ok(JsonArray(<<Rec(1, "red", "open")>>))
                          [] k = "next" -> Ok(JsonArray(<<>>))]
            vals == [k \in Slots |-> slotThen(k, r.currentPage, requestThen(outs[k]).value)]
        IN  /\ pc = [c \in Calls |-> IF c = 1 THEN "joined" ELSE "absent"]
            /\ arg = [c \in Calls |-> c]
            /\ heap = r.heap
            /\ given = [c \in Calls |-> h0[c]]
            /\ firstQuery = [c \in Calls |-> IF c = 1 THEN r.uri ELSE NoSlots(NoQuery)]
            /\ calls = [c \in Calls |-> IF c = 1 THEN 1 ELSE 0]
            /\ currentPage = [c \in Calls |-> IF c = 1 THEN r.currentPage ELSE Undefined]
            /\ query = [c \in Calls |-> IF c = 1 THEN r.uri ELSE NoSlots(NoQuery)]
            /\ fstate = [c \in Calls |-> IF c = 1 THEN NoSlots("settled") ELSE NoSlots("none")]
            /\ outcome = [c \in Calls |-> IF c = 1 THEN outs ELSE NoSlots(Pending)]
            /\ value = [c \in Calls |-> IF c = 1 THEN vals ELSE NoSlots(Pending)]
            /\ flog = [c \in Calls |-> NoSlots(NoLog)]
            /\ response = [c \in Calls |-> IF c = 1 THEN joinThen(vals).value ELSE Pending]
            /\ result = [c \in Calls |-> Pending]
            /\ clog = [c \in Calls |-> NoLog]
            /\ RequestHandler = r.self
            /\ ResponseHandler = [response |-> Undefined, options |-> Undefined]

NextTransform == \E c \in Calls : Transform(c)

SpecTransform == InitTransform /\ [][NextTransform]_vars

(***************************************************************************)
(* What the claims speak of, stated without the program's operators.       *)
(***************************************************************************)
Started(c) == pc[c] \in {"pending", "joined", "done"}

\* The GET returned a 2xx response whose body is a JSON array of records.
IsRecordArray(out) ==
    /\ out.kind = "response"
    /\ out.status \in 200..299
    /\ out.body.t = "array"

\* The GET failed, or returned a status other than 2xx, or a 2xx body that
\* cannot be parsed.
IsNoValue(out) ==
    \/ out.kind = "failure"
    \/ out.kind = "response" /\ out.status \notin 200..299
    \/ out.kind = "response" /\ out.status \in 200..299 /\ out.body = Unparseable

\* page n if the probe returned at least one record, else the no-page marker.
HintFor(out, n) ==
    IF IsRecordArray(out) /\ Len(out.body.items) >= 1 THEN n ELSE Null

IsPositiveInteger(v) == v.t = "number" /\ v.tenths > 0 /\ v.tenths % 10 = 0
\* The target page P of a call: the page given, 1 when none is given.
HasTargetPage(c) == given[c].page = Undefined \/ IsPositiveInteger(given[c].page)
TargetPage(c) == IF given[c].page = Undefined THEN 1 ELSE given[c].page.tenths \div 10

IsAggregate(v) ==
    DOMAIN v = {"previousPage", "nextPage", "ids", "open", "closedPrimaryCount"}

(***************************************************************************)
(* Claims.                                                                 *)
(***************************************************************************)

\* C1: when the GET of the target page P yields no value while both probes
\* return record arrays, retrieve resolves to the aggregate whose
\* previousPage and nextPage are the probes' hints (P-1 / P+1 if the probe
\* returned a record, else null) and whose ids and open are empty and
\* closedPrimaryCount is 0.  (An undefined hint is read here as the no-page
\* marker too, so that what refutes the claim is a hint that is lost.)
IsHint(v, expected) == v = expected \/ (expected = Null /\ v = Undefined)
C1_FailedCurrentKeepsHints ==
    \A c \in Calls :
        ( /\ pc[c] = "done"
          /\ HasTargetPage(c)
          /\ IsNoValue(outcome[c]["current"])
          /\ IsRecordArray(outcome[c]["previous"])
          /\ IsRecordArray(outcome[c]["next"]) )
        => /\ IsAggregate(result[c])
           /\ IsHint(result[c].previousPage,
                     HintFor(outcome[c]["previous"], Num(TargetPage(c) - 1)))
           /\ IsHint(result[c].nextPage,
                     HintFor(outcome[c]["next"], Num(TargetPage(c) + 1)))
           /\ result[c].ids = <<>>
           /\ result[c].open = <<>>
           /\ result[c].closedPrimaryCount = 0

\* C2: whatever the three GETs end in, once all have settled retrieve
\* resolves to an aggregate with the fields previousPage, nextPage, ids, open
\* and closedPrimaryCount.
C2_AlwaysAnAggregate ==
    \A c \in Calls : pc[c] = "done" => IsAggregate(result[c])

\* C3: for a target page P >= 1 whose own GET returns a record array,
\* previousPage is P-1 if the previous probe returned at least one record and
\* null otherwise, and nextPage is P+1 if the next probe returned at least one
\* record and null otherwise.
C3_AdjacencyHints ==
    \A c \in Calls :
        ( /\ pc[c] = "done"
          /\ IsPositiveInteger(given[c].page)
          /\ IsRecordArray(outcome[c]["current"]) )
        => /\ IsAggregate(result[c])
           /\ result[c].previousPage =
                 HintFor(outcome[c]["previous"], Num(TargetPage(c) - 1))
           /\ result[c].nextPage =
                 HintFor(outcome[c]["next"], Num(TargetPage(c) + 1))

\* The adjacency rule of C3 where each probe returned a record array or no
\* value at all.
AdjacencyHintsOfArrayProbes ==
    \A c \in Calls :
        ( /\ pc[c] = "done"
          /\ IsPositiveInteger(given[c].page)
          /\ IsRecordArray(outcome[c]["current"])
          /\ \A k \in {"previous", "next"} :
                IsRecordArray(outcome[c][k]) \/ IsNoValue(outcome[c][k]) )
        => /\ IsAggregate(result[c])
           /\ result[c].previousPage =
                 HintFor(outcome[c]["previous"], Num(TargetPage(c) - 1))
           /\ result[c].nextPage =
                 HintFor(outcome[c]["next"], Num(TargetPage(c) + 1))

\* C4: for an integer page P >= 1, or no page (P = 1), a call issues exactly
\* three GETs, with offsets (P-1)*10, (P-2)*10 and P*10, each with limit 10 and
\* with the color filter a list: options.colors, or the empty list when
\* colors is omitted.
C4_ThreeQueries ==
    \A c \in Calls :
        (Started(c) /\ HasTargetPage(c)) =>
            LET P == TargetPage(c)
                colors == IF given[c].colors = Undefined THEN List(<<>>) ELSE given[c].colors
                Q(offset) == [path |-> path,
                              search |-> [limit |-> 10, offset |-> offset, color |-> colors]]
            IN  /\ DOMAIN query[c] = {"current", "previous", "next"}
                /\ \A k \in DOMAIN query[c] : fstate[c][k] # "none"
                /\ query[c]["current"] = Q((P - 1) * 10)
                /\ query[c]["previous"] = Q((P - 2) * 10)
                /\ query[c]["next"] = Q(P * 10)
                /\ colors.t = "array"

\* C4's case: a call for page 1 with a color and a limit of 5, whose previous
\* probe goes out with offset -10 and limit 10.
C4_Witness ==
    /\ pc[1] = "pending"
    /\ given[1] = [page |-> Num(1), colors |-> List(<<"red">>), limit |-> Num(5)]
    /\ query[1]["previous"].search.offset = -10
    /\ query[1]["previous"].search.limit = 10
    /\ query[1]["next"].search.color = List(<<"red">>)

\* C5: the three GETs of a call form a fork-join: none settles before all
\* three are issued, and requestPages and retrieve resolve only after all
\* three have settled; while one is outstanding nothing is resolved.
C5_ForkJoin ==
    \A c \in Calls :
        /\ (\E k \in Slots : fstate[c][k] = "settled")
              => \A k \in Slots : fstate[c][k] \in {"inflight", "settled"}
        /\ pc[c] \in {"joined", "done"} => \A k \in Slots : fstate[c][k] = "settled"
        /\ (\E k \in Slots : fstate[c][k] = "inflight")
              => response[c] = Pending /\ result[c] = Pending

\* C5's case: both probes have settled, the page itself has not, and the
\* call is still waiting.
C5_Witness ==
    /\ pc[1] = "pending"
    /\ fstate[1]["previous"] = "settled"
    /\ fstate[1]["next"] = "settled"
    /\ fstate[1]["current"] = "inflight"
    /\ result[1] = Pending

\* C6: when options.page is 0 or a negative integer, the page is taken as 1:
\* the current query has offset 0 and the probes are numbered from page 1.
C6_NonPositivePageDefaults ==
    \A c \in Calls :
        ( /\ Started(c)
          /\ given[c].page.t = "number"
          /\ given[c].page.tenths <= 0
          /\ given[c].page.tenths % 10 = 0 )
        => /\ query[c]["current"].search.offset = 0
           /\ currentPage[c] = Num(1)

\* C7: for the record sequence given to the transform stage: ids are the
\* ids in input order; open is the subsequence of the records whose
\* disposition is "open", each with isPrimary; isPrimary holds iff the color
\* is exactly red, blue or yellow; closedPrimaryCount counts the records that
\* are closed and primary.
ExpectedPrimary(r) == r.color = "red" \/ r.color = "blue" \/ r.color = "yellow"
RECURSIVE ExpectedOpen(_)
ExpectedOpen(s) ==
    IF s = <<>> THEN <<>>
    ELSE LET r == Head(s)
         IN  (IF r.disposition = "open"
              THEN <<[id |-> r.id, color |-> r.color, disposition |-> r.disposition,
                      isPrimary |-> ExpectedPrimary(r)]>>
              ELSE <<>>) \o ExpectedOpen(Tail(s))
C7_Transform ==
    \A c \in Calls :
        (pc[c] = "done" /\ IsRecordArray(outcome[c]["current"])) =>
            LET s == outcome[c]["current"].body.items
            IN  /\ IsAggregate(result[c])
                /\ Len(result[c].ids) = Len(s)
                /\ \A i \in 1..Len(s) : result[c].ids[i] = s[i].id
                /\ result[c].open = ExpectedOpen(s)
                /\ result[c].closedPrimaryCount =
                      Cardinality({i \in 1..Len(s) :
                                      s[i].disposition = "closed" /\ ExpectedPrimary(s[i])})

\* C7's case: a page with a near-match color that is open and a closed
\* primary record has been transformed.
C7_Witness ==
    /\ pc[1] = "done"
    /\ outcome[1]["current"].body.items =
          <<Rec(2, "Red", "open"), Rec(1, "yellow", "closed")>>
    /\ result[1].ids = <<2, 1>>
    /\ result[1].closedPrimaryCount = 1
    /\ Len(result[1].open) = 1

\* C8: a GET answered with a status s, 400 <= s < 600, resolves to no value
\* and a message carrying s is logged.
C8_ErrorStatusLogged ==
    \A c \in Calls, k \in Slots :
        ( /\ fstate[c][k] = "settled"
          /\ outcome[c][k].kind = "response"
          /\ outcome[c][k].status >= 400
          /\ outcome[c][k].status < 600 )
        => /\ value[c][k] \in {Undefined, Null}
           /\ flog[c][k] # NoLog
           /\ flog[c][k].status = outcome[c][k].status

\* C9: two calls given distinct options objects, however their six GETs
\* interleave, each issue the queries and resolve to the aggregate they would
\* alone, though both go through the shared RequestHandler and ResponseHandler.
FreshRequestHandler == [options |-> Undefined]
FreshResponseHandler == [response |-> Undefined, options |-> Undefined]
AloneQueries(c) ==
    requestPages(FreshRequestHandler, Ref(arg[c]), [o \in Objs |-> given[c]])
AloneResult(c) ==
    LET r == AloneQueries(c)
        vals == [k \in Slots |->
                    slotThen(k, r.currentPage, requestThen(outcome[c][k]).value)]
    IN  transformResponse(FreshResponseHandler, joinThen(vals).value, Ref(arg[c])).value
C9_Isolation ==
    arg[1] # arg[2] =>
        \A c \in Calls :
            /\ Started(c) => query[c] = AloneQueries(c).uri
            /\ pc[c] = "done" => result[c] = AloneResult(c)

\* C9's case: call 2 started before call 1 and transformed after it, on
\* different objects, and the two resolved to different aggregates.
C9_Witness ==
    /\ arg[1] # arg[2]
    /\ pc[1] = "done" /\ pc[2] = "done"
    /\ RequestHandler.options = Ref(arg[1])
    /\ ResponseHandler.options = Ref(arg[2])
    /\ IsAggregate(result[1]) /\ IsAggregate(result[2])
    /\ result[1].ids # result[2].ids
    /\ query[1] # query[2]

\* C10: retrieve leaves the caller's options unchanged, so a second call
\* with the same options object requests the same three pages as the first.
C10_OptionsUnchanged ==
    \A c \in Calls :
        Started(c) =>
            /\ heap[arg[c]] = given[c]
            /\ calls[c] >= 2 => query[c] = firstQuery[c]

=============================================================================
